---- MODULE Spec2Model ----
(***************************************************************************)
(* Model of the event pipeline runner                                      *)
(* (plugin-server/src/worker/ingestion/event-pipeline/runner.ts).          *)
(*                                                                         *)
(* An invocation is one call of an entry variant on an EventPipelineRunner.*)
(* Its position (pc) moves through the suspension points of the code:      *)
(*   idle -> [fetchingPerson] -> loop -> awaiting -> loop ...              *)
(*        -> [dlqPending] -> returned -> done                              *)
(* Everything the runner hands to a collaborator (statsd, Sentry, the      *)
(* Kafka producer, the step functions, the timeout guard) is recorded in   *)
(* per-invocation logs.                                                    *)
(***************************************************************************)
EXTENDS Integers, Sequences, FiniteSets, TLC

----------------------------------------------------------------------------
(* Bounds of the model *)

\* invocations that exist in the model
NumInv == 2
\* runners (EventPipelineRunner objects) that exist in the model
NumRunners == 2
\* step invocations allowed within one pipeline invocation
MaxSteps == 2
\* seconds the clock advances in one tick
TickSec == 30
\* the clock of a pending step is not advanced beyond this many seconds
MaxElapsed == 30

Inv == 1..NumInv
Runners == 1..NumRunners

----------------------------------------------------------------------------
(* Values *)

\* events handed to the constructor and to the entry variants
Events ==
    { [class |-> "Event", uuid |-> "u1", team_id |-> 1, distinct_id |-> "d1"],
      [class |-> "Event", uuid |-> "u2", team_id |-> 2, distinct_id |-> "d2"] }

LazyPersonContainer_perPerson(id, teamId, distinctId) ==
    [class |-> "LazyPersonContainer", id |-> teamId, teamId |-> teamId,
     distinctId |-> distinctId, hub |-> "hub"]

\* new LazyPersonContainer(teamId, distinctId, hub); id is the identity of the
\* object (the invocation that created it), its loaded flag lives in `loaded`
LazyPersonContainer(id, teamId, distinctId) ==
    [class |-> "LazyPersonContainer", id |-> id, teamId |-> teamId,
     distinctId |-> distinctId, hub |-> "hub"]

\* the keys of EVENT_PIPELINE_STEPS
EVENT_PIPELINE_STEPS ==
    { "populateTeamDataStep", "emitToBufferStep", "pluginsProcessEventStep",
      "processPersonsStep", "prepareEventStep", "createEventStep",
      "runAsyncHandlersStep" }

\* a name that is not a key of EVENT_PIPELINE_STEPS
UnregisteredSteps == { "unregisteredStep" }

StepNames == EVENT_PIPELINE_STEPS \cup UnregisteredSteps

STEPS_TO_EMIT_TO_DLQ_ON_FAILURE_withAsync == EVENT_PIPELINE_STEPS

STEPS_TO_EMIT_TO_DLQ_ON_FAILURE ==
    { "populateTeamDataStep", "emitToBufferStep", "pluginsProcessEventStep",
      "processPersonsStep", "prepareEventStep", "createEventStep" }

\* errors a step function may throw
StepErrors ==
    { [kind |-> "DependencyUnavailableError", message |-> "postgres unavailable"],
      [kind |-> "Error", message |-> "step failed"] }

\* what calling EVENT_PIPELINE_STEPS[name] throws when name is no key of it
NotAFunction ==
    [kind |-> "TypeError", message |-> "EVENT_PIPELINE_STEPS[name] is not a function"]

\* errors kafkaProducer.queueMessage may reject with
DlqErrors ==
    { [kind |-> "DependencyUnavailableError", message |-> "kafka unavailable"],
      [kind |-> "Error", message |-> "queueMessage failed"] }

\* no event has been captured
NotCaptured == [event |-> "none"]

NoError == [kind |-> "none", message |-> ""]
NoResult == [lastStep |-> "none"]

\* the step result null
Null == [next |-> "null", args |-> << >>]

\* nextStep(name, ...args)
nextStep(name, args) == [next |-> name, args |-> args]

\* what `await personContainer.get()` tells: whether the person was found
LazyPersonContainer_get == BOOLEAN

\* the pipelines (entry variants), by the value of their `pipeline` tag
Variants == { "lightweight_capture", "event", "buffer", "asyncHandlers" }

----------------------------------------------------------------------------
(* State *)

VARIABLES
    active,          \* the invocations that take part in this behaviour
    originalEvent,   \* runner -> this.originalEvent
    runnerOf,        \* invocation -> the runner it is called on
    pc,              \* invocation -> position in the code
    variant,         \* invocation -> entry variant called ("none" before)
    currentStepName, \* invocation -> runPipeline's currentStepName
    currentArgs,     \* invocation -> runPipeline's currentArgs
    seed,            \* invocation -> arguments the entry variant seeds
    loaded,          \* container id -> LazyPersonContainer.loaded
    didPersonExistAtStart, \* invocation -> runBufferEventPipeline's local
    elapsed,         \* invocation -> seconds since the current step started
    timers,          \* pending timeout-guard timers
    warnings,        \* warnings logged by timeout guards that fired
    calls,           \* invocation -> step functions invoked, in order
    returns,         \* invocation -> step results observed by runPipeline
    caught,          \* invocation -> error caught by runPipeline's catch
    stats,           \* invocation -> statsd counters emitted, in order
    sentry,          \* invocation -> Sentry.captureException calls, in order
    dlq,             \* invocation -> dead-letter submissions attempted
    dlqError,        \* invocation -> error caught by handleError's catch
    effects,         \* invocation -> order of its entries in the logs
    result,          \* invocation -> value returned by runPipeline
    raised,          \* invocation -> error raised to the caller
    captured,        \* the event as captured ("none" before)
    exported,        \* payload exportEvents got when the event was ingested
    replayed         \* payloads exportEvents got from historical exports

runnerVars ==
    << active, originalEvent, runnerOf, pc, variant, currentStepName,
       currentArgs, seed, loaded, didPersonExistAtStart, elapsed, timers,
       warnings, calls, returns, caught, stats, sentry, dlq, dlqError,
       effects, result, raised >>

exportVars == << captured, exported, replayed >>

vars == << runnerVars, exportVars >>

----------------------------------------------------------------------------
(* Helpers *)

\* the timeout the guard is set to, in seconds
TimeoutThreshold == 30

Push(log, i, x) == [log EXCEPT ![i] = Append(@, x)]

\* the next entry of a log of invocation i, as an entry of `effects`; the
\* logs are "stats", "sentry", "dlq" and "calls"; "settled" is the end of the
\* dead-letter submission, "return" and "throw" the end of runPipeline
Effect(log, k) == [log |-> log, k |-> k]
NextStat(i) == Effect("stats", Len(stats[i]) + 1)
NextReport(i) == Effect("sentry", Len(sentry[i]) + 1)
Then(i, es) == [effects EXCEPT ![i] = @ \o es]

\* statsd.increment(name, tags) / statsd.timing(name, timer, tags)
Counter(name, tags) == [name |-> name, tags |-> tags]

Step_runnerField(i) ==
    currentStepName[CHOOSE j \in Inv : runnerOf[j] = runnerOf[i] /\ pc[j] # "idle"]

Step(i) == currentStepName[i]
Runner(i) == runnerOf[i]

IsContainer(arg) == arg.class = "LazyPersonContainer"

HasContainer(args) == \E k \in 1..Len(args) : IsContainer(args[k])

\* JSON.stringify(value): a string made from the value
JSONstringify(value) == [json |-> value]

serialize_identity(arg) == arg

serialize_withoutLoaded(arg) ==
    IF IsContainer(arg)
    THEN [teamId |-> arg.teamId, distinctId |-> arg.distinctId]
    ELSE arg

\* EventPipelineRunner.serialize
serialize(arg) ==
    IF IsContainer(arg)
    THEN [teamId |-> arg.teamId, distinctId |-> arg.distinctId,
          loaded |-> loaded[arg.id]]
    ELSE arg

\* currentArgs.map((arg) => this.serialize(arg))
SerializeAll(args) == [k \in 1..Len(args) |-> serialize(args[k])]

isDependencyUnavailable_never(err) == FALSE

isDependencyUnavailable_always(err) == TRUE

\* err instanceof DependencyUnavailableError
isDependencyUnavailable(err) == err.kind = "DependencyUnavailableError"

\* the result runPipeline returns after the final step
TerminalResult(i) ==
    [lastStep |-> Step(i), args |-> SerializeAll(currentArgs[i])]

FailedResult_previousStep(i, err) ==
    [lastStep |-> IF calls[i] = << >> THEN Step(i) ELSE calls[i][1].step,
     args |-> SerializeAll(currentArgs[i]), error |-> err.message]

\* the result runPipeline returns from its catch block
FailedResult(i, err) ==
    [lastStep |-> Step(i), args |-> SerializeAll(currentArgs[i]),
     error |-> err.message]

DeadLetterArguments_currentArgs(i, err) ==
    [event |-> currentArgs[i][1], error |-> err]

\* the arguments of generateEventDeadLetterQueueMessage in handleError
DeadLetterArguments(i, err) ==
    [event |-> originalEvent[Runner(i)], error |-> err]

\* timeoutGuard(message, context): the timer it sets
timeoutGuard(i, name) ==
    [inv |-> i, due |-> TimeoutThreshold,
     message |-> "Event pipeline step stalled. Timeout warning after 30 sec!",
     context |-> [step |-> name,
                  event |-> JSONstringify(originalEvent[Runner(i)])]]

clearTimeout_forgotten(pending, timeout) == pending

\* clearTimeout(timeout)
clearTimeout(pending, timeout) == pending \ {timeout}

StartStep_alwaysFirst(v) == "populateTeamDataStep"

\* the first step and the start counter of each entry variant
StartStep(v) ==
    CASE v = "lightweight_capture" -> "populateTeamDataStep"
      [] v = "event" -> "emitToBufferStep"
      [] v = "buffer" -> "pluginsProcessEventStep"
      [] v = "asyncHandlers" -> "runAsyncHandlersStep"

StartCounter_sameTag(v) ==
    Counter("kafka_queue.event_pipeline.start", [pipeline |-> "event"])

StartCounter(v) ==
    IF v = "lightweight_capture"
    THEN Counter("kafka_queue.lightweight_capture_endpoint_event_pipeline.start",
                 [pipeline |-> v])
    ELSE Counter("kafka_queue.event_pipeline.start", [pipeline |-> v])

\* argument tuples a step may put in a continuation
ContinuationArgs(i) ==
    { << e >> : e \in Events } \cup
    { << e, LazyPersonContainer(i, e.team_id, e.distinct_id) >> : e \in Events }

StepResults(i) ==
    { Null } \cup
    { nextStep(name, args) : name \in StepNames, args \in ContinuationArgs(i) }

----------------------------------------------------------------------------
(* Initial states: the runners are constructed, no entry variant is called *)

InitFor(invocations) ==
    /\ active = invocations
    /\ originalEvent \in [Runners -> Events]
    /\ runnerOf \in [Inv -> Runners]
    /\ \A i \in Inv \ invocations : runnerOf[i] = 1
    /\ \A r \in Runners :
         (\A i \in invocations : runnerOf[i] # r) =>
             originalEvent[r] = originalEvent[1]
    /\ pc = [i \in Inv |-> "idle"]
    /\ variant = [i \in Inv |-> "none"]
    /\ currentStepName = [i \in Inv |-> "none"]
    /\ currentArgs = [i \in Inv |-> << >>]
    /\ seed = [i \in Inv |-> << >>]
    /\ loaded = [i \in Inv |-> FALSE]
    /\ didPersonExistAtStart = [i \in Inv |-> FALSE]
    /\ elapsed = [i \in Inv |-> 0]
    /\ timers = {}
    /\ warnings = {}
    /\ calls = [i \in Inv |-> << >>]
    /\ returns = [i \in Inv |-> << >>]
    /\ caught = [i \in Inv |-> NoError]
    /\ stats = [i \in Inv |-> << >>]
    /\ sentry = [i \in Inv |-> << >>]
    /\ dlq = [i \in Inv |-> << >>]
    /\ dlqError = [i \in Inv |-> NoError]
    /\ effects = [i \in Inv |-> << >>]
    /\ result = [i \in Inv |-> NoResult]
    /\ raised = [i \in Inv |-> NoError]
    /\ captured = NotCaptured
    /\ exported = NotCaptured
    /\ replayed = << >>

\* one invocation, on runner 1
Init ==
    /\ InitFor({1})
    /\ runnerOf[1] = 1

----------------------------------------------------------------------------
(* Entry variants *)

\* runPipeline(name, ...args), up to the head of its loop
RunPipelineStart(i, name, args) ==
    /\ currentStepName' = [currentStepName EXCEPT ![i] = name]
    /\ currentArgs' = [currentArgs EXCEPT ![i] = args]

\* runLightweightCaptureEndpointEventPipeline / runEventPipeline /
\* runBufferEventPipeline / runAsyncHandlersEventPipeline, up to their first
\* await
Entry(i, v, event) ==
    /\ i \in active
    /\ pc[i] = "idle"
    /\ variant' = [variant EXCEPT ![i] = v]
    /\ stats' = Push(stats, i, StartCounter(v))
    /\ effects' = Then(i, << NextStat(i) >>)
    /\ IF v \in {"buffer", "asyncHandlers"}
       THEN seed' = [seed EXCEPT ![i] =
                << event, LazyPersonContainer(i, event.team_id, event.distinct_id) >>]
       ELSE seed' = [seed EXCEPT ![i] = << event >>]
    /\ IF v = "buffer"
       THEN /\ pc' = [pc EXCEPT ![i] = "fetchingPerson"]
            /\ UNCHANGED << currentStepName, currentArgs >>
       ELSE /\ pc' = [pc EXCEPT ![i] = "loop"]
            /\ RunPipelineStart(i, StartStep(v), seed'[i])
    /\ UNCHANGED << dlqError, active, originalEvent, runnerOf, loaded,
                    didPersonExistAtStart, elapsed, timers, warnings, calls,
                    returns, caught, sentry, dlq, result, raised >>
    /\ UNCHANGED exportVars

\* runBufferEventPipeline: `await personContainer.get()` completes, then
\* runPipeline is called
PersonFetched(i, person) ==
    /\ pc[i] = "fetchingPerson"
    /\ loaded' = [loaded EXCEPT ![i] = person]
    /\ didPersonExistAtStart' = [didPersonExistAtStart EXCEPT ![i] = person]
    /\ pc' = [pc EXCEPT ![i] = "loop"]
    /\ RunPipelineStart(i, StartStep("buffer"), seed[i])
    /\ effects' = Then(i, << Effect("get", 1) >>)
    /\ UNCHANGED << dlqError, active, originalEvent, runnerOf, variant, seed, elapsed,
                    timers, warnings, calls, returns, caught, stats, sentry,
                    dlq, result, raised >>
    /\ UNCHANGED exportVars

\* the entry variant after `await this.runPipeline(...)` returned a result
EntryFinish(i) ==
    /\ pc[i] = "returned"
    /\ stats' = Push(stats, i,
          CASE variant[i] \in {"lightweight_capture", "event"} ->
                 Counter("kafka_queue.single_event.processed_and_ingested", << >>)
            [] variant[i] = "buffer" ->
                 Counter("kafka_queue.buffer_event.processed_and_ingested",
                         [didPersonExistAtStart |-> didPersonExistAtStart[i]])
            [] variant[i] = "asyncHandlers" ->
                 Counter("kafka_queue.async_handlers.processed", << >>))
    /\ effects' = Then(i, << NextStat(i) >>)
    /\ pc' = [pc EXCEPT ![i] = "done"]
    /\ UNCHANGED << dlqError, active, originalEvent, runnerOf, variant, currentStepName,
                    currentArgs, seed, loaded, didPersonExistAtStart, elapsed,
                    timers, warnings, calls, returns, caught, sentry, dlq,
                    result, raised >>
    /\ UNCHANGED exportVars

----------------------------------------------------------------------------
(* handleError *)

HandleError_reraiseFirst(i, err) ==
    /\ caught' = [caught EXCEPT ![i] = err]
    /\ IF isDependencyUnavailable(err)
       THEN /\ raised' = [raised EXCEPT ![i] = err]
            /\ effects' = Then(i, << Effect("throw", 1) >>)
            /\ pc' = [pc EXCEPT ![i] = "done"]
            /\ UNCHANGED << sentry, stats, dlq, result >>
       ELSE /\ sentry' = Push(sentry, i,
                  [error |-> err,
                   extra |-> [currentStepName |-> Step(i),
                              serializedArgs |-> SerializeAll(currentArgs[i]),
                              originalEvent |-> originalEvent[Runner(i)]]])
            /\ stats' = Push(stats, i,
                  Counter("kafka_queue.event_pipeline.step.error", [step |-> Step(i)]))
            /\ IF Step(i) \in STEPS_TO_EMIT_TO_DLQ_ON_FAILURE
               THEN /\ dlq' = Push(dlq, i, DeadLetterArguments(i, err))
                    /\ effects' = Then(i, << NextReport(i), NextStat(i),
                                            Effect("dlq", Len(dlq[i]) + 1) >>)
                    /\ pc' = [pc EXCEPT ![i] = "dlqPending"]
                    /\ UNCHANGED << raised, result >>
               ELSE /\ result' = [result EXCEPT ![i] = FailedResult(i, err)]
                    /\ effects' = Then(i, << NextReport(i), NextStat(i),
                                            Effect("return", 1) >>)
                    /\ pc' = [pc EXCEPT ![i] = "returned"]
                    /\ UNCHANGED << raised, dlq >>

HandleError_retry(i, err) ==
    /\ caught' = [caught EXCEPT ![i] = err]
    /\ sentry' = Push(sentry, i,
          [error |-> err,
           extra |-> [currentStepName |-> Step(i),
                      serializedArgs |-> SerializeAll(currentArgs[i]),
                      originalEvent |-> originalEvent[Runner(i)]]])
    /\ stats' = Push(stats, i,
          Counter("kafka_queue.event_pipeline.step.error", [step |-> Step(i)]))
    /\ IF isDependencyUnavailable(err)
       THEN /\ pc' = [pc EXCEPT ![i] = "loop"]
            /\ effects' = Then(i, << NextReport(i), NextStat(i) >>)
            /\ UNCHANGED << raised, dlq, result >>
       ELSE IF Step(i) \in STEPS_TO_EMIT_TO_DLQ_ON_FAILURE
       THEN /\ dlq' = Push(dlq, i, DeadLetterArguments(i, err))
            /\ effects' = Then(i, << NextReport(i), NextStat(i),
                                    Effect("dlq", Len(dlq[i]) + 1) >>)
            /\ pc' = [pc EXCEPT ![i] = "dlqPending"]
            /\ UNCHANGED << raised, result >>
       ELSE /\ result' = [result EXCEPT ![i] = FailedResult(i, err)]
            /\ effects' = Then(i, << NextReport(i), NextStat(i), Effect("return", 1) >>)
            /\ pc' = [pc EXCEPT ![i] = "returned"]
            /\ UNCHANGED << raised, dlq >>

HandleError_submitUnawaited(i, err) ==
    /\ caught' = [caught EXCEPT ![i] = err]
    /\ sentry' = Push(sentry, i,
          [error |-> err,
           extra |-> [currentStepName |-> Step(i),
                      serializedArgs |-> SerializeAll(currentArgs[i]),
                      originalEvent |-> originalEvent[Runner(i)]]])
    /\ stats' = Push(stats, i,
          Counter("kafka_queue.event_pipeline.step.error", [step |-> Step(i)]))
    /\ IF isDependencyUnavailable(err)
       THEN /\ raised' = [raised EXCEPT ![i] = err]
            /\ effects' = Then(i, << NextReport(i), NextStat(i), Effect("throw", 1) >>)
            /\ pc' = [pc EXCEPT ![i] = "done"]
            /\ UNCHANGED << dlq, result >>
       ELSE IF Step(i) \in STEPS_TO_EMIT_TO_DLQ_ON_FAILURE
       THEN /\ dlq' = Push(dlq, i, DeadLetterArguments(i, err))
            /\ result' = [result EXCEPT ![i] = FailedResult(i, err)]
            /\ effects' = Then(i, << NextReport(i), NextStat(i),
                                    Effect("dlq", Len(dlq[i]) + 1),
                                    Effect("return", 1) >>)
            /\ pc' = [pc EXCEPT ![i] = "returned"]
            /\ UNCHANGED raised
       ELSE /\ result' = [result EXCEPT ![i] = FailedResult(i, err)]
            /\ effects' = Then(i, << NextReport(i), NextStat(i), Effect("return", 1) >>)
            /\ pc' = [pc EXCEPT ![i] = "returned"]
            /\ UNCHANGED << raised, dlq >>

\* handleError(err, currentStepName, currentArgs), from the catch block of
\* runPipeline up to its first suspension: report, count, then re-raise, or
\* start the dead-letter submission, or return to runPipeline
HandleError(i, err) ==
    /\ caught' = [caught EXCEPT ![i] = err]
    /\ sentry' = Push(sentry, i,
          [error |-> err,
           extra |-> [currentStepName |-> Step(i),
                      serializedArgs |-> SerializeAll(currentArgs[i]),
                      originalEvent |-> originalEvent[Runner(i)]]])
    /\ stats' = Push(stats, i,
          Counter("kafka_queue.event_pipeline.step.error", [step |-> Step(i)]))
    /\ IF isDependencyUnavailable(err)
       THEN /\ raised' = [raised EXCEPT ![i] = err]
            /\ effects' = Then(i, << NextReport(i), NextStat(i), Effect("throw", 1) >>)
            /\ pc' = [pc EXCEPT ![i] = "done"]
            /\ UNCHANGED << dlq, result >>
       ELSE IF Step(i) \in STEPS_TO_EMIT_TO_DLQ_ON_FAILURE
       THEN /\ dlq' = Push(dlq, i, DeadLetterArguments(i, err))
            /\ effects' = Then(i, << NextReport(i), NextStat(i),
                                    Effect("dlq", Len(dlq[i]) + 1) >>)
            /\ pc' = [pc EXCEPT ![i] = "dlqPending"]
            /\ UNCHANGED << raised, result >>
       ELSE /\ result' = [result EXCEPT ![i] = FailedResult(i, err)]
            /\ effects' = Then(i, << NextReport(i), NextStat(i), Effect("return", 1) >>)
            /\ pc' = [pc EXCEPT ![i] = "returned"]
            /\ UNCHANGED << raised, dlq >>

\* `await kafkaProducer.queueMessage(message)` succeeded; handleError returns
\* and runPipeline returns the failed result
DlqResolve(i) ==
    /\ pc[i] = "dlqPending"
    /\ stats' = Push(stats, i, Counter("events_added_to_dead_letter_queue", << >>))
    /\ effects' = Then(i, << Effect("settled", 1), NextStat(i), Effect("return", 1) >>)
    /\ result' = [result EXCEPT ![i] = FailedResult(i, caught[i])]
    /\ pc' = [pc EXCEPT ![i] = "returned"]
    /\ UNCHANGED << dlqError, active, originalEvent, runnerOf, variant, currentStepName,
                    currentArgs, seed, loaded, didPersonExistAtStart, elapsed,
                    timers, warnings, calls, returns, caught, sentry, dlq,
                    raised >>
    /\ UNCHANGED exportVars

DlqReject_counted(i, error) ==
    /\ pc[i] = "dlqPending"
    /\ dlqError' = [dlqError EXCEPT ![i] = error]
    /\ sentry' = Push(sentry, i,
          [error |-> error,
           extra |-> [currentStepName |-> Step(i),
                      serializedArgs |-> SerializeAll(currentArgs[i]),
                      originalEvent |-> originalEvent[Runner(i)],
                      err |-> caught[i]]])
    /\ stats' = Push(stats, i, Counter("events_added_to_dead_letter_queue", << >>))
    /\ effects' = Then(i, << Effect("settled", 1), NextReport(i), NextStat(i),
                            Effect("return", 1) >>)
    /\ result' = [result EXCEPT ![i] = FailedResult(i, caught[i])]
    /\ pc' = [pc EXCEPT ![i] = "returned"]
    /\ UNCHANGED << active, originalEvent, runnerOf, variant, currentStepName,
                    currentArgs, seed, loaded, didPersonExistAtStart, elapsed,
                    timers, warnings, calls, returns, caught, dlq, raised >>
    /\ UNCHANGED exportVars

DlqReject_rethrow(i, error) ==
    /\ pc[i] = "dlqPending"
    /\ dlqError' = [dlqError EXCEPT ![i] = error]
    /\ sentry' = Push(sentry, i,
          [error |-> error,
           extra |-> [currentStepName |-> Step(i),
                      serializedArgs |-> SerializeAll(currentArgs[i]),
                      originalEvent |-> originalEvent[Runner(i)],
                      err |-> caught[i]]])
    /\ raised' = [raised EXCEPT ![i] = error]
    /\ effects' = Then(i, << Effect("settled", 1), NextReport(i), Effect("throw", 1) >>)
    /\ pc' = [pc EXCEPT ![i] = "done"]
    /\ UNCHANGED << active, originalEvent, runnerOf, variant, currentStepName,
                    currentArgs, seed, loaded, didPersonExistAtStart, elapsed,
                    timers, warnings, calls, returns, caught, stats, dlq,
                    result >>
    /\ UNCHANGED exportVars

\* `await kafkaProducer.queueMessage(message)` failed: the catch (dlqError)
\* block reports it; handleError returns and runPipeline returns the failed
\* result
DlqReject(i, error) ==
    /\ pc[i] = "dlqPending"
    /\ dlqError' = [dlqError EXCEPT ![i] = error]
    /\ sentry' = Push(sentry, i,
          [error |-> error,
           extra |-> [currentStepName |-> Step(i),
                      serializedArgs |-> SerializeAll(currentArgs[i]),
                      originalEvent |-> originalEvent[Runner(i)],
                      err |-> caught[i]]])
    /\ effects' = Then(i, << Effect("settled", 1), NextReport(i), Effect("return", 1) >>)
    /\ result' = [result EXCEPT ![i] = FailedResult(i, caught[i])]
    /\ pc' = [pc EXCEPT ![i] = "returned"]
    /\ UNCHANGED << active, originalEvent, runnerOf, variant, currentStepName,
                    currentArgs, seed, loaded, didPersonExistAtStart, elapsed,
                    timers, warnings, calls, returns, caught, stats, dlq,
                    raised >>
    /\ UNCHANGED exportVars

----------------------------------------------------------------------------
(* runPipeline and runStep *)

RunStep_noAwait(i) ==
    /\ pc[i] \in {"loop", "awaiting"}
    /\ Len(calls[i]) < MaxSteps
    /\ LET timeout == timeoutGuard(i, Step(i))
       IN  timers' = clearTimeout(timers \cup {timeout}, timeout)
    /\ elapsed' = [elapsed EXCEPT ![i] = 0]
    /\ IF Step(i) \in EVENT_PIPELINE_STEPS
       THEN /\ calls' = Push(calls, i, [step |-> Step(i), args |-> currentArgs[i]])
            /\ effects' = Then(i, << Effect("calls", Len(calls[i]) + 1) >>)
            /\ pc' = [pc EXCEPT ![i] = "awaiting"]
            /\ UNCHANGED << caught, stats, sentry, dlq, result, raised >>
       ELSE /\ HandleError(i, NotAFunction)
            /\ UNCHANGED calls
    /\ UNCHANGED << dlqError, active, originalEvent, runnerOf, variant, currentStepName,
                    currentArgs, seed, loaded, didPersonExistAtStart, warnings,
                    returns >>
    /\ UNCHANGED exportVars

\* head of the loop of runPipeline: `this.runStep(currentStepName,
\* ...currentArgs)`. runStep sets the timeout guard, calls the step function,
\* which returns its promise, and clears the guard in its finally block. A
\* name that is no key of EVENT_PIPELINE_STEPS makes the call throw, which
\* the catch block of runPipeline handles.
RunStep(i) ==
    /\ pc[i] = "loop"
    /\ Len(calls[i]) < MaxSteps
    /\ LET timeout == timeoutGuard(i, Step(i))
       IN  timers' = clearTimeout(timers \cup {timeout}, timeout)
    /\ elapsed' = [elapsed EXCEPT ![i] = 0]
    /\ IF Step(i) \in EVENT_PIPELINE_STEPS
       THEN /\ calls' = Push(calls, i, [step |-> Step(i), args |-> currentArgs[i]])
            /\ effects' = Then(i, << Effect("calls", Len(calls[i]) + 1) >>)
            /\ pc' = [pc EXCEPT ![i] = "awaiting"]
            /\ UNCHANGED << caught, stats, sentry, dlq, result, raised >>
       ELSE /\ HandleError(i, NotAFunction)
            /\ UNCHANGED calls
    /\ UNCHANGED << dlqError, active, originalEvent, runnerOf, variant, currentStepName,
                    currentArgs, seed, loaded, didPersonExistAtStart, warnings,
                    returns >>
    /\ UNCHANGED exportVars

\* time passes while the step's promise is pending; timeout guards that are
\* still set and due fire and log their warning
Tick(i) ==
    /\ pc[i] = "awaiting"
    /\ elapsed[i] < MaxElapsed
    /\ LET now == elapsed[i] + TickSec
           due == { t \in timers : t.inv = i /\ t.due <= now }
       IN  /\ elapsed' = [elapsed EXCEPT ![i] = now]
           /\ timers' = timers \ due
           /\ warnings' = warnings \cup
                 { [inv |-> t.inv, message |-> t.message, context |-> t.context]
                     : t \in due }
    /\ UNCHANGED << dlqError, active, originalEvent, runnerOf, pc, variant,
                    currentStepName, currentArgs, seed, loaded,
                    didPersonExistAtStart, calls, returns, caught, stats,
                    sentry, dlq, result, raised >>
    /\ UNCHANGED << effects, exportVars >>

\* the running step resolves a person container it was given
\* (personContainer.get() finds the person)
StepLoadsPerson(i) ==
    /\ pc[i] = "awaiting"
    /\ HasContainer(currentArgs[i])
    /\ ~loaded[i]
    /\ loaded' = [loaded EXCEPT ![i] = TRUE]
    /\ UNCHANGED << dlqError, active, originalEvent, runnerOf, pc, variant,
                    currentStepName, currentArgs, seed, didPersonExistAtStart,
                    elapsed, timers, warnings, calls, returns, caught, stats,
                    sentry, dlq, result, raised >>
    /\ UNCHANGED << effects, exportVars >>

StepResolve_lastOnEveryStep(i, stepResult) ==
    /\ pc[i] = "awaiting"
    /\ returns' = Push(returns, i, stepResult)
    /\ LET counted == Append(Append(stats[i],
              Counter("kafka_queue.event_pipeline.step", [step |-> Step(i)])),
              Counter("kafka_queue.event_pipeline.step.timing", [step |-> Step(i)]))
       IN  IF stepResult # Null
           THEN /\ currentStepName' = [currentStepName EXCEPT ![i] = stepResult.next]
                /\ currentArgs' = [currentArgs EXCEPT ![i] = stepResult.args]
                /\ stats' = [stats EXCEPT ![i] = Append(counted,
                      Counter("kafka_queue.event_pipeline.step.last",
                              [step |-> Step(i),
                               team_id |-> originalEvent[Runner(i)].team_id]))]
                /\ effects' = Then(i, << NextStat(i), Effect("stats", Len(stats[i]) + 2),
                                        Effect("stats", Len(stats[i]) + 3) >>)
                /\ pc' = [pc EXCEPT ![i] = "loop"]
                /\ UNCHANGED result
           ELSE /\ stats' = [stats EXCEPT ![i] = Append(counted,
                      Counter("kafka_queue.event_pipeline.step.last",
                              [step |-> Step(i),
                               team_id |-> originalEvent[Runner(i)].team_id]))]
                /\ effects' = Then(i, << NextStat(i), Effect("stats", Len(stats[i]) + 2),
                                        Effect("stats", Len(stats[i]) + 3),
                                        Effect("return", 1) >>)
                /\ result' = [result EXCEPT ![i] = TerminalResult(i)]
                /\ pc' = [pc EXCEPT ![i] = "returned"]
                /\ UNCHANGED << currentStepName, currentArgs >>
    /\ UNCHANGED << dlqError, active, originalEvent, runnerOf, variant, seed, loaded,
                    didPersonExistAtStart, elapsed, timers, warnings, calls,
                    caught, sentry, dlq, raised >>
    /\ UNCHANGED exportVars

\* the step's promise resolves with stepResult: the try block of runPipeline
\* after the await
StepResolve(i, stepResult) ==
    /\ pc[i] = "awaiting"
    /\ returns' = Push(returns, i, stepResult)
    /\ LET counted == Append(Append(stats[i],
              Counter("kafka_queue.event_pipeline.step", [step |-> Step(i)])),
              Counter("kafka_queue.event_pipeline.step.timing", [step |-> Step(i)]))
       IN  IF stepResult # Null
           THEN /\ currentStepName' = [currentStepName EXCEPT ![i] = stepResult.next]
                /\ currentArgs' = [currentArgs EXCEPT ![i] = stepResult.args]
                /\ stats' = [stats EXCEPT ![i] = counted]
                /\ effects' = Then(i, << NextStat(i), Effect("stats", Len(stats[i]) + 2) >>)
                /\ pc' = [pc EXCEPT ![i] = "loop"]
                /\ UNCHANGED result
           ELSE /\ stats' = [stats EXCEPT ![i] = Append(counted,
                      Counter("kafka_queue.event_pipeline.step.last",
                              [step |-> Step(i),
                               team_id |-> originalEvent[Runner(i)].team_id]))]
                /\ effects' = Then(i, << NextStat(i), Effect("stats", Len(stats[i]) + 2),
                                        Effect("stats", Len(stats[i]) + 3),
                                        Effect("return", 1) >>)
                /\ result' = [result EXCEPT ![i] = TerminalResult(i)]
                /\ pc' = [pc EXCEPT ![i] = "returned"]
                /\ UNCHANGED << currentStepName, currentArgs >>
    /\ UNCHANGED << dlqError, active, originalEvent, runnerOf, variant, seed, loaded,
                    didPersonExistAtStart, elapsed, timers, warnings, calls,
                    caught, sentry, dlq, raised >>
    /\ UNCHANGED exportVars

\* the step's promise rejects with err: the catch block of runPipeline
StepReject(i, err) ==
    /\ pc[i] = "awaiting"
    /\ HandleError(i, err)
    /\ UNCHANGED << dlqError, active, originalEvent, runnerOf, variant, currentStepName,
                    currentArgs, seed, loaded, didPersonExistAtStart, elapsed,
                    timers, warnings, calls, returns >>
    /\ UNCHANGED exportVars

----------------------------------------------------------------------------
(* Specification *)

Next ==
    \/ \E i \in Inv, v \in Variants, event \in Events : Entry(i, v, event)
    \/ \E i \in Inv, person \in LazyPersonContainer_get : PersonFetched(i, person)
    \/ \E i \in Inv : RunStep(i)
    \/ \E i \in Inv : Tick(i)
    \/ \E i \in Inv : StepLoadsPerson(i)
    \/ \E i \in Inv : \E stepResult \in StepResults(i) : StepResolve(i, stepResult)
    \/ \E i \in Inv, err \in StepErrors : StepReject(i, err)
    \/ \E i \in Inv : DlqResolve(i)
    \/ \E i \in Inv, error \in DlqErrors : DlqReject(i, error)
    \/ \E i \in Inv : EntryFinish(i)

Spec == Init /\ [][Next]_vars

----------------------------------------------------------------------------
(* Concurrent invocations: two calls of entry variants, on the same runner *)
(* or on two runners, interleaved at their suspension points               *)

\* the entry variants called concurrently
ConcurrentVariants == { "buffer", "asyncHandlers" }

\* what the steps of concurrent invocations return: null, or a continuation
\* that hands the step's own arguments on
ConcurrentStepResults(i) ==
    { Null } \cup
    { nextStep("runAsyncHandlersStep", currentArgs[i]) }

\* invocation 1 on runner 1, invocation 2 on runner 1 or 2
InitConcurrent ==
    /\ InitFor({1, 2})
    /\ runnerOf[1] = 1
    /\ runnerOf[2] \in {1, 2}

NextConcurrent ==
    \/ \E i \in Inv, v \in ConcurrentVariants, event \in Events : Entry(i, v, event)
    \/ \E i \in Inv, person \in LazyPersonContainer_get : PersonFetched(i, person)
    \/ \E i \in Inv : RunStep(i)
    \/ \E i \in Inv : StepLoadsPerson(i)
    \/ \E i \in Inv : \E stepResult \in ConcurrentStepResults(i) :
          StepResolve(i, stepResult)
    \/ \E i \in Inv, err \in StepErrors : StepReject(i, err)
    \/ \E i \in Inv : DlqResolve(i)
    \/ \E i \in Inv, error \in DlqErrors : DlqReject(i, error)
    \/ \E i \in Inv : EntryFinish(i)

SpecConcurrent == InitConcurrent /\ [][NextConcurrent]_vars

----------------------------------------------------------------------------
(* Historical export (functional_tests/exports-v2.test.ts)                 *)
(*                                                                         *)
(* An event is captured and exported while it is ingested; historical      *)
(* export jobs covering its timestamp then export the stored event again.  *)

\* historical export jobs run in one behaviour
MaxReplays == 2
\* times (in minutes) at which a historical export may convert the event
MaxReplayTime == 3

\* what capture() is given
CaptureEventNames == { "$autocapture", "$pageview" }
CaptureDistinctIds == { "d1", "d2" }
CaptureProperties ==
    { [name |-> "hehe"], [name |-> "hehe", uuid |-> "p-uuid"] }
CaptureTimes == { 0, 8, 10 }
ReplayTimes == 1..MaxReplayTime

\* the properties a historical export adds: $$is_historical_export_event,
\* $$historical_export_timestamp, $$historical_export_source_db
HistoricalProperties(convertedAt) ==
    [ historical |-> TRUE, export_timestamp |-> convertedAt,
      source_db |-> "clickhouse" ]

\* f extended by the keys of g that f does not have
Extend(f, g) ==
    [key \in DOMAIN f \cup DOMAIN g |-> IF key \in DOMAIN f THEN f[key] ELSE g[key]]

\* the timestamp ingestion stores: `now` corrected by the skew between
\* sent_at and the client's timestamp
SkewAdjustedTimestamp(c) == c.now - (c.sent_at - c.timestamp)

\* the event as stored by ingestion; the uuid property is the event's uuid
StoredEvent(c) ==
    [event |-> c.event, uuid |-> c.uuid, distinct_id |-> c.distinct_id,
     team_id |-> c.team_id, timestamp |-> SkewAdjustedTimestamp(c),
     properties |-> Extend([uuid |-> c.uuid], c.properties)]

\* payload of exportEvents for the event as it is ingested
LiveExportPayload(c) ==
    [event |-> StoredEvent(c).event, uuid |-> StoredEvent(c).uuid,
     distinct_id |-> StoredEvent(c).distinct_id,
     team_id |-> StoredEvent(c).team_id,
     timestamp |-> StoredEvent(c).timestamp, ip |-> "null",
     properties |-> StoredEvent(c).properties]

HistoricalExportPayload_restamped(c, convertedAt) ==
    [event |-> StoredEvent(c).event, uuid |-> StoredEvent(c).uuid,
     distinct_id |-> StoredEvent(c).distinct_id,
     team_id |-> StoredEvent(c).team_id,
     timestamp |-> convertedAt, ip |-> "", site_url |-> "",
     now |-> convertedAt,
     properties |-> Extend(StoredEvent(c).properties,
                           HistoricalProperties(convertedAt))]

\* payload of exportEvents for the stored event in a historical export that
\* converts it at convertedAt
HistoricalExportPayload(c, convertedAt) ==
    [event |-> StoredEvent(c).event, uuid |-> StoredEvent(c).uuid,
     distinct_id |-> StoredEvent(c).distinct_id,
     team_id |-> StoredEvent(c).team_id,
     timestamp |-> StoredEvent(c).timestamp, ip |-> "", site_url |-> "",
     now |-> convertedAt,
     properties |-> Extend(StoredEvent(c).properties,
                           HistoricalProperties(convertedAt))]

\* capture(producer, teamId, distinctId, uuid, event, properties, null,
\* sentAt, eventTime, now), and the export of the ingested event
Capture(c) ==
    /\ captured = NotCaptured
    /\ captured' = c
    /\ exported' = LiveExportPayload(c)
    /\ UNCHANGED << replayed, runnerVars >>

\* createHistoricalExportJob with a date range covering the event's
\* timestamp, and the export it makes
HistoricalExport(convertedAt) ==
    /\ captured # NotCaptured
    /\ Len(replayed) < MaxReplays
    /\ replayed' = Append(replayed, HistoricalExportPayload(captured, convertedAt))
    /\ UNCHANGED << captured, exported, runnerVars >>

InitReplay ==
    /\ InitFor({})
    /\ originalEvent[1].uuid = "u1"

NextReplay ==
    \/ \E event \in CaptureEventNames, distinct_id \in CaptureDistinctIds,
          properties \in CaptureProperties,
          timestamp \in CaptureTimes, sent_at \in CaptureTimes,
          now \in CaptureTimes :
            Capture([event |-> event, uuid |-> "e-uuid", team_id |-> 1,
                     distinct_id |-> distinct_id, properties |-> properties,
                     timestamp |-> timestamp, sent_at |-> sent_at, now |-> now])
    \/ \E convertedAt \in ReplayTimes : HistoricalExport(convertedAt)

SpecReplay == InitReplay /\ [][NextReplay]_vars

----------------------------------------------------------------------------
(* Vocabulary of the properties *)

\* runPipeline has returned a result / the invocation raised an error
HasResult(i) == result[i] # NoResult
HasRaised(i) == raised[i] # NoError
IsFailed(i) == HasResult(i) /\ "error" \in DOMAIN result[i]
IsTerminal(i) == HasResult(i) /\ "error" \notin DOMAIN result[i]

\* a step function threw (the call of an unregistered name is no step)
StepThrew(i) == caught[i] \in StepErrors

\* the last step function that was invoked
LastCall(i) == calls[i][Len(calls[i])]

\* the reduced projection of a person container
ReducedProjection(c) ==
    [teamId |-> c.teamId, distinctId |-> c.distinctId, loaded |-> loaded[c.id]]

\* an argument tuple with every person container replaced by its projection
Reduced(args) ==
    [k \in 1..Len(args) |->
        IF args[k].class = "LazyPersonContainer"
        THEN ReducedProjection(args[k]) ELSE args[k]]

\* the dead-letterable subset of the steps
DeadLetterable ==
    { "populateTeamDataStep", "emitToBufferStep", "pluginsProcessEventStep",
      "processPersonsStep", "prepareEventStep", "createEventStep" }

\* while nothing was thrown: a step that returned null is the last one
\* invoked and runPipeline returned at it; a result exists only then, and
\* names that step
TerminalShape(i, expectedArgs) ==
    /\ \A k \in 1..Len(returns[i]) :
          returns[i][k] = Null => k = Len(calls[i]) /\ HasResult(i)
    /\ HasResult(i) =>
          /\ calls[i] # << >>
          /\ Len(returns[i]) = Len(calls[i])
          /\ returns[i][Len(returns[i])] = Null
          /\ \A k \in 1..(Len(returns[i]) - 1) : returns[i][k] # Null
          /\ result[i].lastStep = LastCall(i).step
          /\ result[i].args = expectedArgs
          /\ "error" \notin DOMAIN result[i]

\* the arguments the last step function was invoked with
LastArgs(i) == IF calls[i] = << >> THEN << >> ELSE LastCall(i).args

----------------------------------------------------------------------------
(* C1 *)

\* C1 as stated: when no step throws and every continuation names a
\* registered step, runPipeline returns exactly at the first step that
\* returns null, lastStep is that step, args are the very arguments that step
\* was invoked with, and there is no error field.
C1_Original ==
    \A i \in Inv : caught[i] = NoError => TerminalShape(i, LastArgs(i))

\* C1 (amended): when no step throws and every continuation names a
\* registered step, runPipeline returns exactly at the first step that
\* returns null (not earlier, no step is invoked after it), lastStep is that
\* step, args are the arguments that step was invoked with, each person
\* container among them reduced to its projection, and there is no error
\* field.
C1_TerminalAtFirstNull ==
    \A i \in Inv : caught[i] = NoError => TerminalShape(i, Reduced(LastArgs(i)))

\* a chain A -> B -> null whose last step was given a person container
C1_Witness ==
    \E i \in Inv :
        /\ caught[i] = NoError
        /\ IsTerminal(i)
        /\ Len(calls[i]) = 2
        /\ HasContainer(LastCall(i).args)
        /\ calls[i][1].step # calls[i][2].step

----------------------------------------------------------------------------
(* C2 *)

\* C2: a Dependency Unavailable error thrown by any step, dead-letterable or
\* the async-handlers step, is re-raised to the caller as that same error; no
\* result is returned and no dead-letter submission is made in the invocation.
C2_DependencyUnavailableReraised ==
    \A i \in Inv :
        (StepThrew(i) /\ caught[i].kind = "DependencyUnavailableError") =>
            /\ raised[i] = caught[i]
            /\ ~HasResult(i)
            /\ dlq[i] = << >>
            /\ pc[i] = "done"

\* the second step of a chain, a dead-letterable one, threw Dependency
\* Unavailable
C2_Witness ==
    \E i \in Inv :
        /\ StepThrew(i)
        /\ caught[i].kind = "DependencyUnavailableError"
        /\ Len(calls[i]) = 2
        /\ LastCall(i).step \in DeadLetterable
        /\ HasRaised(i)

----------------------------------------------------------------------------
(* C3 *)

\* C3: an error that is not Dependency Unavailable, thrown by a step of the
\* dead-letterable subset, leads to exactly one dead-letter submission
\* attempt, built from the runner's originalEvent (with its uuid) and the
\* thrown error, not from the current step arguments.
C3_OneDeadLetterFromOriginalEvent ==
    \A i \in Inv :
        (/\ StepThrew(i)
         /\ caught[i].kind # "DependencyUnavailableError"
         /\ LastCall(i).step \in DeadLetterable) =>
            /\ Len(dlq[i]) = 1
            /\ dlq[i][1].event = originalEvent[runnerOf[i]]
            /\ dlq[i][1].event.uuid = originalEvent[runnerOf[i]].uuid
            /\ dlq[i][1].error = caught[i]

\* a dead-letterable step, invoked with an event other than originalEvent,
\* threw a generic error and the invocation has ended
C3_Witness ==
    \E i \in Inv :
        /\ StepThrew(i)
        /\ caught[i].kind = "Error"
        /\ LastCall(i).step \in DeadLetterable
        /\ LastCall(i).args[1] # originalEvent[runnerOf[i]]
        /\ pc[i] = "done"

----------------------------------------------------------------------------
(* C4 *)

\* C4 as stated: any error thrown by runAsyncHandlersStep ends in a returned
\* Failed result, nothing raised, and zero dead-letter submissions.
C4_Original ==
    \A i \in Inv :
        (StepThrew(i) /\ LastCall(i).step = "runAsyncHandlersStep") =>
            /\ IsFailed(i)
            /\ ~HasRaised(i)
            /\ dlq[i] = << >>

\* C4 (amended): any error thrown by runAsyncHandlersStep leads to zero
\* dead-letter submissions; if it is not Dependency Unavailable it ends in a
\* returned Failed result carrying its message, nothing raised; if it is
\* Dependency Unavailable it is re-raised and no result is returned.
C4_AsyncHandlersNeverDeadLettered ==
    \A i \in Inv :
        (StepThrew(i) /\ LastCall(i).step = "runAsyncHandlersStep") =>
            /\ dlq[i] = << >>
            /\ IF caught[i].kind = "DependencyUnavailableError"
               THEN raised[i] = caught[i] /\ ~HasResult(i)
               ELSE /\ IsFailed(i)
                    /\ result[i].error = caught[i].message
                    /\ ~HasRaised(i)

\* runAsyncHandlersStep threw a generic error and the caller got the result
C4_Witness ==
    \E i \in Inv :
        /\ StepThrew(i)
        /\ caught[i].kind = "Error"
        /\ LastCall(i).step = "runAsyncHandlersStep"
        /\ IsFailed(i)
        /\ pc[i] = "done"

----------------------------------------------------------------------------
(* C5 *)

\* C5: a step name that is not in the registry is not executed and is a fatal
\* programming error: the failure is raised to the caller, never caught and
\* turned into a returned pipeline result.
C5_UnregisteredStepIsFatal ==
    \A i \in Inv :
        /\ \A k \in 1..Len(calls[i]) : calls[i][k].step \in EVENT_PIPELINE_STEPS
        /\ caught[i] = NotAFunction => HasRaised(i) /\ ~HasResult(i)

----------------------------------------------------------------------------
(* C6 *)

\* C6: within one invocation, whatever continuations the steps return, no
\* step name is invoked twice.
C6_EachStepAtMostOnce ==
    \A i \in Inv :
        \A j, k \in 1..Len(calls[i]) :
            j # k => calls[i][j].step # calls[i][k].step

----------------------------------------------------------------------------
(* C7 *)

\* C7: when a step started through runStep is still pending once the guard's
\* threshold has elapsed since its start, the guard has fired and logged its
\* warning with the step name and the serialized originating event.
C7_GuardFiresOnStalledStep ==
    \A i \in Inv :
        (pc[i] = "awaiting" /\ elapsed[i] >= TimeoutThreshold) =>
            \E w \in warnings :
                /\ w.inv = i
                /\ w.context.step = currentStepName[i]
                /\ w.context.event = JSONstringify(originalEvent[runnerOf[i]])

----------------------------------------------------------------------------
(* C8 *)

\* C8: when the dead-letter submission fails, with any error, the runner
\* reports that error, neither re-raises it nor retries the submission, and
\* returns a Failed result whose lastStep is the throwing step and whose
\* error is the message of the step's error, not of the submission error.
C8_DeadLetterFailureSwallowed ==
    \A i \in Inv :
        dlqError[i] # NoError =>
            /\ \E k \in 1..Len(sentry[i]) : sentry[i][k].error = dlqError[i]
            /\ ~HasRaised(i)
            /\ Len(dlq[i]) = 1
            /\ IsFailed(i)
            /\ result[i].lastStep = LastCall(i).step
            /\ result[i].error = caught[i].message
            /\ result[i].error # dlqError[i].message

\* the submission failed with a Dependency Unavailable error and the caller
\* got the result
C8_Witness ==
    \E i \in Inv :
        /\ dlqError[i] # NoError
        /\ dlqError[i].kind = "DependencyUnavailableError"
        /\ Len(calls[i]) = 2
        /\ pc[i] = "done"

----------------------------------------------------------------------------
(* C9 *)

\* the result returned after a step threw, with expectedArgs as its args
FailedShape(i, expectedArgs) ==
    /\ IsFailed(i)
    /\ result[i].lastStep = LastCall(i).step
    /\ result[i].args = expectedArgs
    /\ result[i].error = caught[i].message

\* C9 as stated: when a step's error is not re-raised, the Failed result has
\* the throwing step as lastStep, the very arguments that step was invoked
\* with as args, and the error's message as error.
C9_Original ==
    \A i \in Inv :
        (StepThrew(i) /\ ~HasRaised(i) /\ HasResult(i)) =>
            FailedShape(i, LastArgs(i))

\* C9 (amended): when a step's error is not re-raised, the Failed result has
\* the throwing step as lastStep (not its predecessor or a successor), as
\* args the arguments that step was invoked with, each person container among
\* them reduced to its projection, and the error's message as error.
C9_FailedResultNamesThrowingStep ==
    \A i \in Inv :
        (StepThrew(i) /\ ~HasRaised(i) /\ HasResult(i)) =>
            FailedShape(i, Reduced(LastArgs(i)))

\* the second step of a chain, given a person container, threw
C9_Witness ==
    \E i \in Inv :
        /\ StepThrew(i)
        /\ IsFailed(i)
        /\ Len(calls[i]) = 2
        /\ calls[i][1].step # calls[i][2].step
        /\ HasContainer(LastCall(i).args)

----------------------------------------------------------------------------
(* C10 *)

\* C10: a call of an entry variant that has ended returned a result without
\* error, or returned a result with an error message, or raised a Dependency
\* Unavailable error, and exactly one of the three; no error of another kind
\* is ever raised to the caller.
C10_ThreeOutcomes ==
    \A i \in Inv :
        /\ HasRaised(i) =>
              raised[i].kind = "DependencyUnavailableError" /\ ~HasResult(i)
        /\ pc[i] = "done" =>
              \/ IsTerminal(i) /\ ~HasRaised(i)
              \/ IsFailed(i) /\ result[i].error # "" /\ ~HasRaised(i)
              \/ ~HasResult(i) /\ raised[i].kind = "DependencyUnavailableError"

\* a call ended after the runner met an unregistered step name: the
\* TypeError did not reach the caller
C10_Witness ==
    \E i \in Inv :
        /\ pc[i] = "done"
        /\ caught[i].kind = "TypeError"
        /\ IsFailed(i)

----------------------------------------------------------------------------
(* C11 *)

\* the "pipeline started" and the "processed" counters
StartCounterNames ==
    { "kafka_queue.lightweight_capture_endpoint_event_pipeline.start",
      "kafka_queue.event_pipeline.start" }

ProcessedCounterNames ==
    { "kafka_queue.single_event.processed_and_ingested",
      "kafka_queue.buffer_event.processed_and_ingested",
      "kafka_queue.async_handlers.processed" }

\* positions in the counter log of an invocation that hold one of the names
CounterPositions(i, names) ==
    { k \in 1..Len(stats[i]) : stats[i][k].name \in names }

\* C11: every call of an entry variant emits exactly one "pipeline started"
\* counter, tagged with its variant's own name (no two variants share a start
\* counter), before the first step is invoked; it emits exactly one
\* "processed" counter once runPipeline has produced a result, Terminal or
\* Failed, and none before the result exists.
C11_StartAndProcessedCounters ==
    /\ \A v, w \in Variants : v # w => StartCounter(v) # StartCounter(w)
    /\ \A i \in Inv :
        /\ pc[i] = "idle" => stats[i] = << >> /\ calls[i] = << >>
        /\ pc[i] # "idle" =>
              /\ CounterPositions(i, StartCounterNames) = {1}
              /\ stats[i][1].tags.pipeline = variant[i]
        /\ Cardinality(CounterPositions(i, ProcessedCounterNames)) <= 1
        /\ CounterPositions(i, ProcessedCounterNames) # {} =>
              /\ HasResult(i)
              /\ stats[i][Len(stats[i])].name \in ProcessedCounterNames
        /\ (pc[i] = "done" /\ HasResult(i)) =>
              CounterPositions(i, ProcessedCounterNames) # {}

\* a buffered-event call that ended in a Failed result and counted it
C11_Witness ==
    \E i \in Inv :
        /\ pc[i] = "done"
        /\ variant[i] = "buffer"
        /\ IsFailed(i)
        /\ Cardinality(CounterPositions(i, ProcessedCounterNames)) = 1

----------------------------------------------------------------------------
(* C12 *)

\* the first step of each variant
FirstStepOf(v) ==
    CASE v = "lightweight_capture" -> "populateTeamDataStep"
      [] v = "event" -> "emitToBufferStep"
      [] v = "buffer" -> "pluginsProcessEventStep"
      [] v = "asyncHandlers" -> "runAsyncHandlersStep"

\* C12: the first step invoked is populateTeamDataStep for lightweight
\* capture, emitToBufferStep for live event, pluginsProcessEventStep for
\* buffered event and runAsyncHandlersStep for async handlers; lightweight and
\* live seed the event only, buffered and async the event plus a person
\* container made from the event's team and distinct id.
C12_VariantsChooseStartAndSeed ==
    \A i \in Inv :
        calls[i] # << >> =>
            /\ calls[i][1].step = FirstStepOf(variant[i])
            /\ calls[i][1].args = seed[i]
            /\ seed[i][1] \in Events
            /\ IF variant[i] \in {"lightweight_capture", "event"}
               THEN Len(seed[i]) = 1
               ELSE /\ Len(seed[i]) = 2
                    /\ seed[i][2].class = "LazyPersonContainer"
                    /\ seed[i][2].teamId = seed[i][1].team_id
                    /\ seed[i][2].distinctId = seed[i][1].distinct_id

\* the async-handlers variant has invoked its first step
C12_Witness ==
    \E i \in Inv :
        /\ variant[i] = "asyncHandlers"
        /\ Len(calls[i]) = 1
        /\ calls[i][1].step = "runAsyncHandlersStep"
        /\ Len(calls[i][1].args) = 2

----------------------------------------------------------------------------
(* C13 *)

\* a replay payload without its replay timestamp and its `now`
WithoutReplayTime(payload) ==
    [payload EXCEPT !.now = 0,
                    !.properties = [@ EXCEPT !.export_timestamp = 0]]

\* the keys a historical export adds: historical flag, replay timestamp,
\* source tag
AddedKeys == { "historical", "export_timestamp", "source_db" }

----------------------------------------------------------------------------
(* C14 *)

\* C14: the runner does not retry. Once runPipeline has caught an error of
\* any kind, no step function is invoked any more in that invocation, neither
\* the same step nor another, the caught error stays the same, and the
\* invocation is on its way out: waiting for the dead-letter submission, or
\* ended with a Failed result or with the error re-raised.
C14_NoRetryAfterThrow ==
    /\ [](\A i \in Inv :
            caught[i] # NoError =>
                /\ pc[i] \in {"dlqPending", "returned", "done"}
                /\ Len(calls[i]) \in {Len(returns[i]), Len(returns[i]) + 1}
                /\ StepThrew(i) => Len(calls[i]) = Len(returns[i]) + 1
                /\ pc[i] \in {"returned", "done"} =>
                      \/ IsFailed(i) /\ ~HasRaised(i)
                      \/ HasRaised(i) /\ ~HasResult(i))
    /\ [][\A i \in Inv :
            caught[i] # NoError =>
                /\ calls'[i] = calls[i]
                /\ returns'[i] = returns[i]
                /\ caught'[i] = caught[i]]_vars

\* the second step of a chain threw a Dependency Unavailable error and the
\* invocation ended
C14_Witness ==
    \E i \in Inv :
        /\ StepThrew(i)
        /\ caught[i].kind = "DependencyUnavailableError"
        /\ Len(calls[i]) = 2
        /\ Len(returns[i]) = 1
        /\ pc[i] = "done"

----------------------------------------------------------------------------
(* C15 *)

\* C15: within an invocation at most one step is in progress at any time, and
\* step k+1 is started only after step k has completed and runPipeline has
\* observed its continuation, which names step k+1 and its arguments; this
\* holds for each of two invocations running concurrently.
C15_StepsStrictlySequential ==
    \A i \in Inv :
        /\ Len(calls[i]) \in {Len(returns[i]), Len(returns[i]) + 1}
        /\ pc[i] = "awaiting" => Len(calls[i]) = Len(returns[i]) + 1
        /\ \A k \in 2..Len(calls[i]) :
              /\ k - 1 <= Len(returns[i])
              /\ returns[i][k - 1] = nextStep(calls[i][k].step, calls[i][k].args)

\* one invocation has started its second step while the other invocation's
\* first step is still in progress
C15_Witness ==
    \E i, j \in Inv :
        /\ i # j
        /\ Len(calls[i]) = 2
        /\ pc[i] = "awaiting"
        /\ Len(calls[j]) = 1
        /\ pc[j] = "awaiting"

----------------------------------------------------------------------------
(* C16 *)

\* positions in the order of effects of invocation i that hold an entry of
\* the given log
EffectPositions(i, log) ==
    { n \in 1..Len(effects[i]) : effects[i][n].log = log }

\* the position of the k-th entry of a log in the order of effects (0 when it
\* is not there)
PositionOf(i, log, k) ==
    IF \E n \in 1..Len(effects[i]) : effects[i][n] = [log |-> log, k |-> k]
    THEN CHOOSE n \in 1..Len(effects[i]) : effects[i][n] = [log |-> log, k |-> k]
    ELSE 0

\* reports of the error runPipeline caught (not of a dead-letter failure)
PrimaryReports(i) ==
    { k \in 1..Len(sentry[i]) :
        sentry[i][k].error = caught[i] /\ "err" \notin DOMAIN sentry[i][k].extra }

StepErrorCounters(i) ==
    CounterPositions(i, { "kafka_queue.event_pipeline.step.error" })

\* C16: for every error thrown by a step, of any kind and in any step, the
\* runner makes exactly one exception report of it and emits exactly one
\* "step error" counter tagged with the throwing step, both before the error
\* is re-raised and before a dead-letter submission is attempted.
C16_ReportAndCountBeforeRouting ==
    \A i \in Inv :
        StepThrew(i) =>
            /\ Cardinality(PrimaryReports(i)) = 1
            /\ Cardinality(StepErrorCounters(i)) = 1
            /\ \A k \in PrimaryReports(i) :
                  sentry[i][k].extra.currentStepName = LastCall(i).step
            /\ \A k \in StepErrorCounters(i) :
                  stats[i][k].tags.step = LastCall(i).step
            /\ \A k \in PrimaryReports(i), c \in StepErrorCounters(i) :
                  \A n \in EffectPositions(i, "throw") \cup EffectPositions(i, "dlq") :
                      /\ 0 < PositionOf(i, "sentry", k)
                      /\ PositionOf(i, "sentry", k) < n
                      /\ 0 < PositionOf(i, "stats", c)
                      /\ PositionOf(i, "stats", c) < n

\* the second step of a chain threw a Dependency Unavailable error, which was
\* reported, counted and then re-raised
C16_Witness ==
    \E i \in Inv :
        /\ StepThrew(i)
        /\ caught[i].kind = "DependencyUnavailableError"
        /\ EffectPositions(i, "throw") # {}
        /\ Len(calls[i]) = 2

----------------------------------------------------------------------------
(* C17 *)

\* C17: the timeout guard set for a step is cleared on every exit path of
\* runStep (the step function returned its promise, or the call threw), so
\* that no guard timer of an invocation is pending once runStep has been left,
\* in particular once the invocation has ended; and a guard that fires only
\* logs: it leaves the step, its result and the invocation's position alone.
C17_GuardReleasedOnEveryExit ==
    /\ [](\A i \in Inv : \A t \in timers : t.inv # i)
    /\ [][warnings' # warnings =>
            UNCHANGED << pc, calls, returns, caught, currentStepName,
                         currentArgs, result, raised >>]_vars

\* an invocation ended after runStep was left once by return and once by the
\* throw of an unregistered step name
C17_Witness ==
    \E i \in Inv :
        /\ pc[i] = "done"
        /\ Len(calls[i]) = 1
        /\ caught[i] = NotAFunction
        /\ \A t \in timers : t.inv # i

----------------------------------------------------------------------------
(* C18 *)

\* no element of the tuple is a person container
NoContainerIn(args) ==
    \A k \in 1..Len(args) :
        /\ "hub" \notin DOMAIN args[k]
        /\ "class" \in DOMAIN args[k] => args[k].class # "LazyPersonContainer"

\* C18: in every returned result, Terminal or Failed, and in the context of
\* every exception report, each argument that is a person container appears
\* as its projection (team id, distinct id, loaded flag), never as the
\* container, and every other argument is unchanged and in the same position.
C18_ContainersOnlyAsProjection ==
    \A i \in Inv :
        /\ HasResult(i) =>
              /\ result[i].args = Reduced(currentArgs[i])
              /\ NoContainerIn(result[i].args)
        /\ \A k \in 1..Len(sentry[i]) :
              /\ sentry[i][k].extra.serializedArgs = Reduced(currentArgs[i])
              /\ NoContainerIn(sentry[i][k].extra.serializedArgs)

\* a step given a loaded person container threw, the dead-letter submission
\* failed too, and the Failed result was returned
C18_Witness ==
    \E i \in Inv :
        /\ IsFailed(i)
        /\ HasContainer(currentArgs[i])
        /\ loaded[i]
        /\ Len(sentry[i]) = 2

----------------------------------------------------------------------------
(* C19 *)

\* the "step completed" counters of an invocation, in the order emitted
StepCompletedCounters(i) ==
    SelectSeq(stats[i], LAMBDA c : c.name = "kafka_queue.event_pipeline.step")

\* positions of the "step is final" counters of an invocation
StepLastPositions(i) ==
    CounterPositions(i, { "kafka_queue.event_pipeline.step.last" })

\* C19: an invocation has emitted one "step completed" counter for each step
\* that returned without throwing, the k-th tagged with the k-th step invoked;
\* it has emitted the "step is final" counter exactly once, tagged with the
\* last step invoked, if it ended in a Terminal result and never otherwise;
\* and as long as runPipeline has caught nothing it has emitted no step error
\* counter, no exception report and no dead-letter submission.
C19_StepCountersFollowReturns ==
    \A i \in Inv :
        /\ Len(StepCompletedCounters(i)) = Len(returns[i])
        /\ \A k \in 1..Len(StepCompletedCounters(i)) :
              /\ k <= Len(calls[i])
              /\ StepCompletedCounters(i)[k].tags.step = calls[i][k].step
        /\ Cardinality(StepLastPositions(i)) <= 1
        /\ StepLastPositions(i) # {} <=> IsTerminal(i)
        /\ \A k \in StepLastPositions(i) :
              stats[i][k].tags.step = LastCall(i).step
        /\ caught[i] = NoError =>
              /\ StepErrorCounters(i) = {}
              /\ sentry[i] = << >>
              /\ dlq[i] = << >>

\* an invocation of two steps, the second of which returned null, has ended
C19_Witness ==
    \E i \in Inv :
        /\ pc[i] = "done"
        /\ IsTerminal(i)
        /\ Len(returns[i]) = 2
        /\ calls[i][1].step # calls[i][2].step

----------------------------------------------------------------------------
(* C20 *)

\* the invocations that were seeded with a person container
SeededWithContainer ==
    { i \in Inv : Len(seed[i]) = 2 /\ seed[i][2].class = "LazyPersonContainer" }

\* C20: every call of the buffered or of the async-handlers variant is seeded
\* with a person container of its own, which no other invocation is seeded
\* with, on the same runner or on another, for the same person or not; and in
\* the buffered variant the resolution of the container requested before the
\* pipeline is over before the first step is invoked.
C20_FreshContainerPerInvocation ==
    /\ \A i \in Inv :
          (pc[i] # "idle" /\ variant[i] \in { "buffer", "asyncHandlers" }) =>
              i \in SeededWithContainer
    /\ \A i, j \in SeededWithContainer :
          i # j => seed[i][2].id # seed[j][2].id
    /\ \A i \in Inv :
          (pc[i] # "idle" /\ variant[i] = "buffer") =>
              /\ pc[i] = "fetchingPerson" => calls[i] = << >>
              /\ calls[i] # << >> =>
                    /\ calls[i][1].args = seed[i]
                    /\ 0 < PositionOf(i, "get", 1)
                    /\ PositionOf(i, "get", 1) < PositionOf(i, "calls", 1)

\* two invocations on the same runner and for the same person, one of them
\* buffered, have both invoked their first step
C20_Witness ==
    /\ runnerOf[1] = runnerOf[2]
    /\ SeededWithContainer = { 1, 2 }
    /\ seed[1][2].teamId = seed[2][2].teamId
    /\ seed[1][2].distinctId = seed[2][2].distinctId
    /\ variant[1] = "buffer"
    /\ calls[1] # << >>
    /\ calls[2] # << >>

----------------------------------------------------------------------------
(* C21 *)

\* what an invocation holds of its own: its position, its locals and what it
\* has done so far
LocalState(i) ==
    << pc[i], variant[i], currentStepName[i], currentArgs[i], seed[i],
       loaded[i], didPersonExistAtStart[i], calls[i], returns[i], caught[i],
       stats[i], sentry[i], dlq[i], dlqError[i], result[i], raised[i] >>

\* the steps an invocation has visited and the result it returned are those
\* its own variant, its own seed and the values its own steps returned
\* determine
RunsAsAlone(i) ==
    /\ calls[i] # << >> =>
          calls[i][1] = [step |-> FirstStepOf(variant[i]), args |-> seed[i]]
    /\ \A k \in 2..Len(calls[i]) :
          /\ k - 1 <= Len(returns[i])
          /\ returns[i][k - 1] # Null
          /\ calls[i][k] = [step |-> returns[i][k - 1].next,
                            args |-> returns[i][k - 1].args]
    /\ \A k \in 1..Len(calls[i]) : \A n \in 1..Len(calls[i][k].args) :
          calls[i][k].args[n].class = "LazyPersonContainer" =>
              calls[i][k].args[n].id = i
    /\ HasResult(i) => calls[i] # << >>
    /\ IsTerminal(i) =>
          /\ Len(returns[i]) = Len(calls[i])
          /\ returns[i][Len(returns[i])] = Null
          /\ result[i] = [lastStep |-> LastCall(i).step,
                          args |-> Reduced(LastArgs(i))]
    /\ IsFailed(i) =>
          result[i] = [lastStep |-> LastCall(i).step,
                       args |-> Reduced(LastArgs(i)),
                       error |-> caught[i].message]

\* C21: invocations are independent: whatever the interleaving of two
\* invocations, on one runner or on two, each visits the steps, with the
\* arguments, and returns the result that its own seed and its own steps'
\* return values determine, as when it runs alone; no step of the program
\* changes what two invocations hold, and none changes a runner's
\* originalEvent.
C21_InvocationsIndependent ==
    /\ [](\A i \in Inv : RunsAsAlone(i))
    /\ [][/\ originalEvent' = originalEvent
          /\ runnerOf' = runnerOf
          /\ \A i, j \in Inv :
                (i # j /\ LocalState(i)' # LocalState(i)) =>
                    LocalState(j)' = LocalState(j)]_vars

\* two invocations of different variants on the same runner: while the second
\* step of one is in progress, the other has returned a Failed result
C21_Witness ==
    \E i, j \in Inv :
        /\ i # j
        /\ runnerOf[i] = runnerOf[j]
        /\ variant[i] # variant[j]
        /\ Len(calls[i]) = 2
        /\ pc[i] = "awaiting"
        /\ IsFailed(j)

----------------------------------------------------------------------------
(* C22 *)

\* positions of the "events added to dead letter queue" counters
DeadLetterCounters(i) ==
    CounterPositions(i, { "events_added_to_dead_letter_queue" })

\* C22: when a Failed result is returned for an error thrown in a
\* dead-letterable step, the dead-letter submission for that error was
\* started and has finished, by success (counted) or by failure (its error
\* caught), before the result is returned; while the submission is
\* outstanding the caller has no result.
C22_DeadLetterSettledBeforeResult ==
    \A i \in Inv :
        /\ pc[i] = "dlqPending" => ~HasResult(i) /\ ~HasRaised(i)
        /\ (IsFailed(i) /\ StepThrew(i) /\ calls[i] # << >>
                /\ LastCall(i).step \in DeadLetterable) =>
              /\ Len(dlq[i]) = 1
              /\ dlq[i][1].error = caught[i]
              /\ 0 < PositionOf(i, "dlq", 1)
              /\ PositionOf(i, "dlq", 1) < PositionOf(i, "settled", 1)
              /\ PositionOf(i, "settled", 1) < PositionOf(i, "return", 1)
              /\ (DeadLetterCounters(i) # {}) # (dlqError[i] # NoError)

\* the second step of a chain, a dead-letterable one, threw, the submission
\* of the event failed, and the Failed result was returned
C22_Witness ==
    \E i \in Inv :
        /\ IsFailed(i)
        /\ StepThrew(i)
        /\ Len(calls[i]) = 2
        /\ LastCall(i).step \in DeadLetterable
        /\ dlqError[i] # NoError
        /\ PositionOf(i, "return", 1) > 0

----------------------------------------------------------------------------
(* C23 *)

\* C23: a call of an entry variant through which a step's Dependency
\* Unavailable error was re-raised has emitted its "pipeline started" counter
\* and one "step error" counter, but no "processed" counter and no "step is
\* final" counter; and the "events added to dead letter queue" counter is
\* emitted at most once, after a dead-letter submission has succeeded, never
\* when the submission failed or none was made.
C23_CountersOfReraiseAndDeadLetter ==
    \A i \in Inv :
        /\ (HasRaised(i) /\ StepThrew(i)) =>
              /\ raised[i].kind = "DependencyUnavailableError"
              /\ CounterPositions(i, StartCounterNames) = {1}
              /\ stats[i][1].tags.pipeline = variant[i]
              /\ Cardinality(StepErrorCounters(i)) = 1
              /\ CounterPositions(i, ProcessedCounterNames) = {}
              /\ StepLastPositions(i) = {}
        /\ Cardinality(DeadLetterCounters(i)) <= 1
        /\ \A c \in DeadLetterCounters(i) :
              /\ Len(dlq[i]) = 1
              /\ dlqError[i] = NoError
              /\ 0 < PositionOf(i, "settled", 1)
              /\ PositionOf(i, "settled", 1) < PositionOf(i, "stats", c)

\* one buffered-event call has re-raised its step's Dependency Unavailable
\* error, while another call ended after its dead-letter submission succeeded
\* and was counted
C23_Witness ==
    \E i, j \in Inv :
        /\ i # j
        /\ HasRaised(i)
        /\ StepThrew(i)
        /\ variant[i] = "buffer"
        /\ pc[i] = "done"
        /\ DeadLetterCounters(j) # {}
        /\ pc[j] = "done"

====
